---- MODULE Spec2Model ----
(***************************************************************************)
(* One scan cycle of the Delta Exchange "Momentum Blast Scanner"           *)
(* (src/crypto.py): the universe selector get_top_liquid_pairs, the candle *)
(* fetch get_historical_data, the indicator engine calculate_metrics and   *)
(* the "Start Scan" button handler that drives them.                       *)
(*                                                                         *)
(* Numbers.  Prices and volumes are small integers.  Every comparison the  *)
(* code makes on floats is made here in exact arithmetic on cross-         *)
(* multiplied integers, so a rolling mean is carried as its window sum and *)
(* the sample variance as 20*SUM(x^2) - SUM(x)^2 (= 20*19*variance).       *)
(* Rounding error of the float computation is not modelled.                *)
(*                                                                         *)
(* Optional values.  Python's None is the empty tuple <<>>, a value v that *)
(* is present is <<v>>.  An empty DataFrame is the empty sequence of rows. *)
(*                                                                         *)
(* The st.cache_data decorator (line 20) is not modelled: the model is one *)
(* scan cycle with a cold cache.  The timeframe only shapes the request    *)
(* parameters (lines 58-72) and time.sleep (line 198) changes no state;    *)
(* neither is modelled.  The slider's range 10..50 is scaled down to       *)
(* 1..MaxLimit, so that the limit can be smaller than the catalog.         *)
(***************************************************************************)
EXTENDS Integers, Sequences, FiniteSets, TLC

VARIABLES
    pc,           \* position of the button handler
    top_n,        \* sidebar slider value (line 162)
    prods,        \* get_top_liquid_pairs: catalog response (line 28)
    tickers,      \* get_top_liquid_pairs: ticker response (line 39)
    products,     \* the universe returned to the handler (line 170)
    i,            \* loop index of enumerate(products), 0-based (line 174)
    df,           \* candle frame of the current instrument (line 179)
    metrics,      \* result of calculate_metrics (line 183)
    results,      \* rows collected so far (line 172)
    requests,     \* symbols of the candle requests sent, in order (line 76)
    progress,     \* values given to progress_bar.progress in the loop
    status_text,  \* text of the status placeholder
    st_error,     \* an st.error box was shown (line 50)
    st_warning,   \* the st.warning box was shown (line 225)
    table         \* rows handed to st.dataframe (line 214)

vars == <<pc, top_n, prods, tickers, products, i, df, metrics, results,
          requests, progress, status_text, st_error, st_warning, table>>

---------------------------------------------------------------------------
(* Bounds of the model *)

MaxCatalog == 3     \* instruments in the venue's catalog
MaxLimit   == 2     \* largest value of the top-N slider
MaxLen     == 22    \* longest candle history the venue returns
MaxRaw     == 3     \* longest payload with arbitrary (unordered, repeating) timestamps

---------------------------------------------------------------------------
(* Generic helpers *)

None == <<>>

Some(v) == <<v>>

Min(a, b) == IF a < b THEN a ELSE b

Max(a, b) == IF a > b THEN a ELSE b

Abs(a) == IF a < 0 THEN -a ELSE a

RECURSIVE SumSeq(_)
SumSeq(s) == IF s = <<>> THEN 0 ELSE Head(s) + SumSeq(Tail(s))

\* s[:n] for n >= 0
Slice(s, n) == SubSeq(s, 1, Min(n, Len(s)))

\* s.iloc[-k] for 1 <= k <= Len(s)
ILocNeg(s, k) == s[Len(s) - k + 1]

InsertAt(s, k, x) == SubSeq(s, 1, k - 1) \o <<x>> \o SubSeq(s, k, Len(s))

---------------------------------------------------------------------------
(* The venue: instrument catalog and ticker snapshot *)

SymbolNames == <<"AAAUSDT", "BBBUSDT", "CCCUSDT", "DDDUSDT", "EEEUSDT">>

Eligible(sym) ==
    [symbol |-> sym, contract_type |-> "perpetual_futures", state |-> "live",
     quoting_asset |-> [symbol |-> "USDT"]]

\* the products the venue may list under one symbol
InstrumentsOf(sym) ==
    { Eligible(sym),
      [Eligible(sym) EXCEPT !.contract_type = "call_options"],
      [Eligible(sym) EXCEPT !.state = "expired"],
      [Eligible(sym) EXCEPT !.quoting_asset = [symbol |-> "USD"]] }

Catalogs ==
    UNION { { c \in [1..n -> UNION {InstrumentsOf(SymbolNames[k]) : k \in 1..n}] :
                \A k \in 1..n : c[k].symbol = SymbolNames[k] }
            : n \in 0..MaxCatalog }

\* a ticker with a volume, a ticker without one, or no ticker at all (None)
TickersOf(sym) ==
    { Some([symbol |-> sym, volume |-> v]) : v \in {1, 2} }
        \cup { Some([symbol |-> sym]), None }

RECURSIVE Flatten(_)
Flatten(ss) == IF ss = <<>> THEN <<>> ELSE Head(ss) \o Flatten(Tail(ss))

TickerLists ==
    { Flatten(f) :
        f \in { g \in [1..MaxCatalog ->
                         UNION {TickersOf(SymbolNames[k]) : k \in 1..MaxCatalog}] :
                  \A k \in 1..MaxCatalog : g[k] \in TickersOf(SymbolNames[k]) } }

---------------------------------------------------------------------------
(* get_top_liquid_pairs (lines 21-51) *)

\* lines 31-36
IsUsdtPerp(p) ==
    /\ p.contract_type = "perpetual_futures"
    /\ p.state = "live"
    /\ p.quoting_asset.symbol = "USDT"

perp_products(ps) == SelectSeq(ps, IsUsdtPerp)

\* line 42: {t['symbol']: float(t['volume']) for t in tickers if 'volume' in t}
\* as the set of its keys and the value of a key (a later ticker overwrites
\* an earlier one)
VolMapKeys(ts) ==
    { ts[k].symbol : k \in { j \in 1..Len(ts) : "volume" \in DOMAIN ts[j] } }

VolMapValue(ts, sym) ==
    LET ks == { j \in 1..Len(ts) :
                  "volume" \in DOMAIN ts[j] /\ ts[j].symbol = sym }
        last == CHOOSE j \in ks : \A h \in ks : h <= j
    IN  ts[last].volume

\* line 45: vol_map.get(x['symbol'], 0)
VolumeKey(ts, p) ==
    IF p.symbol \in VolMapKeys(ts) THEN VolMapValue(ts, p.symbol) ELSE 0

\* list.sort(key=..., reverse=True) is stable: an element goes behind every
\* element whose key is greater or equal
RECURSIVE SortReverseInto(_, _, _)
SortReverseInto(done, rest, ts) ==
    IF rest = <<>> THEN done
    ELSE LET x == Head(rest)
             smaller == { k \in 1..Len(done) :
                            VolumeKey(ts, done[k]) < VolumeKey(ts, x) }
             at == IF smaller = {} THEN Len(done) + 1
                   ELSE CHOOSE k \in smaller : \A h \in smaller : k <= h
         IN  SortReverseInto(InsertAt(done, at, x), Tail(rest), ts)

\* the same sort made by sorting ascending and reversing the list, which
\* turns the order of equal keys around
RECURSIVE SortThenReverseInto(_, _, _)
SortThenReverseInto(done, rest, ts) ==
    IF rest = <<>> THEN done
    ELSE LET x == Head(rest)
             notbigger == { k \in 1..Len(done) :
                              VolumeKey(ts, done[k]) <= VolumeKey(ts, x) }
             at == IF notbigger = {} THEN Len(done) + 1
                   ELSE CHOOSE k \in notbigger : \A h \in notbigger : k <= h
         IN  SortThenReverseInto(InsertAt(done, at, x), Tail(rest), ts)

SortByVolumeReversed(ps, ts) == SortThenReverseInto(<<>>, ps, ts)

SortByVolume(ps, ts) == SortReverseInto(<<>>, ps, ts)

\* lines 31-47 on the two responses
TopLiquidPairs(ps, ts, limit) == Slice(SortByVolume(perp_products(ps), ts), limit)

---------------------------------------------------------------------------
(* The venue: candle history responses (line 76-77) *)

\* one OHLCV record; the open price is never read by the program
Candle(t, c, r, v) ==
    [time |-> t, high |-> c + r, low |-> c - r, close |-> c, volume |-> v]

\* n hourly candles: closes start at 10 and rise by step, the high-low range
\* is 2*r, the volume is 10 except for the last candle's vlast
Series(n, step, r, vlast) ==
    [k \in 1..n |->
        Candle(3600 * k, 10 + step * (k - 1), r, IF k = n THEN vlast ELSE 10)]

Reverse(s) == [k \in 1..Len(s) |-> s[Len(s) + 1 - k]]

\* <<step, r, vlast>>: flat closes inside a range (a squeeze), the same with
\* a volume spike, flat closes with no range (both bands coincide), rising
\* closes with a volume spike, rising closes without one
Shapes == { <<0, 1, 10>>, <<0, 1, 50>>, <<0, 0, 10>>, <<1, 0, 50>>, <<1, 0, 10>> }

Histories == { Series(n, sh[1], sh[2], sh[3]) : n \in 0..MaxLen, sh \in Shapes }

\* short payloads in any order, timestamps may repeat; the volume tells the
\* records apart
UnorderedPayloads ==
    UNION { { [k \in 1..n |-> Candle(ts[k], 10, 1, k)] :
                ts \in [1..n -> {100, 200, 300}] } : n \in 1..MaxRaw }

WithoutField(rows, f) ==
    [k \in 1..Len(rows) |-> [g \in DOMAIN rows[k] \ {f} |-> rows[k][g]]]

\* payloads in which every record lacks one field
MalformedPayloads ==
    { WithoutField(Series(n, 0, 1, 10), f) :
        n \in {21}, f \in {"time", "close", "volume"} }

Payloads ==
    Histories \cup { Reverse(h) : h \in Histories }
        \cup UnorderedPayloads \cup MalformedPayloads

\* what s.get(...).json() does: it raises (network error, body not JSON), or
\* it yields a body with a 'result' list, or a body without one
CandleResponses ==
    { [raises |-> TRUE], [raises |-> FALSE, data |-> [success |-> FALSE]] }
        \cup { [raises |-> FALSE, data |-> [success |-> TRUE, result |-> p]] :
                 p \in Payloads }

---------------------------------------------------------------------------
(* get_historical_data (lines 53-86) *)

Columns(rows) == UNION { DOMAIN rows[k] : k \in 1..Len(rows) }

\* line 82: df.sort_values('time').  The default sort kind is not stable, so
\* records of equal time may come out in any order: the set of all orders.
RECURSIVE SortedOrders(_, _)
SortedOrders(rows, idx) ==
    IF idx = {} THEN { <<>> }
    ELSE UNION { { <<rows[k]>> \o s : s \in SortedOrders(rows, idx \ {k}) } :
                  k \in { j \in idx : \A h \in idx : rows[j].time <= rows[h].time } }

sort_values(rows) == SortedOrders(rows, 1..Len(rows))

\* the frames one response can produce; the empty frame is <<>>
get_historical_data(resp) ==
    IF resp.raises THEN { <<>> }                                \* line 85-86
    ELSE IF "result" \notin DOMAIN resp.data THEN { <<>> }      \* line 79, 84
    ELSE IF resp.data.result = <<>> THEN { <<>> }               \* line 79, 84
    ELSE IF "time" \notin Columns(resp.data.result) THEN { <<>> } \* KeyError, line 85
    ELSE sort_values(resp.data.result)                          \* line 80-83

---------------------------------------------------------------------------
(* calculate_metrics (lines 92-150) *)

Window == 20

MinCandles == 21

Column(rows, f) == [k \in 1..Len(rows) |-> rows[k][f]]

\* .rolling(window=20).sum() at row k: NaN (None) until 20 rows are there
RollingSum(xs, k) ==
    IF k < Window THEN None ELSE Some(SumSeq(SubSeq(xs, k - Window + 1, k)))

Squares(xs) == [k \in 1..Len(xs) |-> xs[k] * xs[k]]

\* lines 122-125: shift(1) is NaN on the first row and max(axis=1) skips NaN
TrueRange(rows) ==
    [k \in 1..Len(rows) |->
        IF k = 1 THEN rows[k].high - rows[k].low
        ELSE Max(rows[k].high - rows[k].low,
                 Max(Abs(rows[k].high - rows[k - 1].close),
                     Abs(rows[k].low - rows[k - 1].close)))]

\* 20*19*stddev^2 of the last window: 20*SUM(x^2) - SUM(x)^2
VarianceScaled(closes, k) ==
    IF k < Window THEN None
    ELSE Some(Window * RollingSum(Squares(closes), k)[1]
                - RollingSum(closes, k)[1] * RollingSum(closes, k)[1])

\* line 136 on the last row.  With sma20 = S/20, stddev^2 = V/380 and
\* atr = T/20,
\*     sma20 + 2*stddev < sma20 + 1.5*atr   (bb_upper < kc_upper)
\*     sma20 - 2*stddev > sma20 - 1.5*atr   (bb_lower > kc_lower)
\* both say 2*stddev < 1.5*atr, that is 320*V < 171*T^2.  A comparison with
\* NaN is false.
squeeze_on(v, t) ==
    /\ v # None /\ t # None
    /\ 320 * v[1] < 171 * t[1] * t[1]      \* bb_upper < kc_upper
    /\ 320 * v[1] < 171 * t[1] * t[1]      \* bb_lower > kc_lower

\* line 142: current['volume'] > vol_sma
high_volume(vol, volsum) == volsum # None /\ Window * vol > volsum[1]

\* line 149, as the fraction <<numerator, denominator>>; NaN is None
RefOffset == 20

change_24h(rows) ==
    LET cur == ILocNeg(rows, 1).close
        ref == ILocNeg(rows, RefOffset).close
    IN  IF ref = 0 THEN None ELSE Some(<<(cur - ref) * 100, ref>>)

\* line 147: bb_upper - bb_lower = 4*stddev, carried as its square times 380
bb_width(v) == IF v = None THEN None ELSE Some(16 * v[1])

\* the gate of line 96 set one candle too low
TooShortOffByOne(rows) == rows = <<>> \/ Len(rows) < MinCandles - 1

\* line 96
TooShort(rows) == rows = <<>> \/ Len(rows) < MinCandles

Raise == [raised |-> TRUE, value |-> None]

Return(v) == [raised |-> FALSE, value |-> v]

calculate_metrics(rows) ==
    IF TooShort(rows) THEN Return(None)
    ELSE IF {"close", "high", "low", "volume"} \ Columns(rows) # {}
         THEN Raise                                        \* KeyError, line 100-141
    ELSE IF Len(rows) < RefOffset THEN Raise               \* IndexError, line 149
    ELSE LET n == Len(rows)
             v == VarianceScaled(Column(rows, "close"), n)
             t == RollingSum(TrueRange(rows), n)
             volsum == RollingSum(Column(rows, "volume"), n)
         IN  Return(Some([price |-> rows[n].close,
                          squeeze |-> squeeze_on(v, t),
                          bb_width |-> bb_width(v),
                          volume_spike |-> high_volume(rows[n].volume, volsum),
                          change_24h |-> change_24h(rows)]))

---------------------------------------------------------------------------
(* The "Start Scan" button handler (lines 165-225) *)

\* round(x, 2) of the fraction x = <<numerator, denominator>>, in hundredths
\* (half to even); round(NaN) is NaN
Round2(x) ==
    IF x = None THEN None
    ELSE LET num == IF x[1][2] < 0 THEN -x[1][1] ELSE x[1][1]
             den == Abs(x[1][2])
             q == (num * 100) \div den
             r == (num * 100) % den
         IN  Some(IF 2 * r > den \/ (2 * r = den /\ q % 2 = 1) THEN q + 1 ELSE q)

\* the label chosen by testing the volume spike first
StatusSpikeFirst(m) == IF m.volume_spike THEN "VOL SPIKE" ELSE "SQUEEZE"

\* line 191
Status(m) == IF m.squeeze THEN "SQUEEZE" ELSE "VOL SPIKE"

\* lines 188-194; "BB Width" keeps the scaled square of bb_width, its
\* rounding to 4 places is not modelled
Row(sym, m) ==
    [Symbol |-> sym, Price |-> m.price, Status |-> Status(m),
     Change24h |-> Round2(m.change_24h), BBWidth |-> m.bb_width]

\* line 187
HasSignal(m) == m.squeeze \/ m.volume_spike

\* lines 185-194
Collect(rows, sym, mopt) ==
    IF mopt # None /\ HasSignal(mopt[1]) THEN Append(rows, Row(sym, mopt[1]))
    ELSE rows

\* the progress value computed from the 0-based loop index alone
ProgressValueZeroBased(k, total) == <<k, total>>

\* the value given to progress_bar.progress (line 197), as a fraction
ProgressValue(k, total) == <<k + 1, total>>

\* where the for loop goes with k instruments handled (line 174)
LoopHead(k, ps) == IF k < Len(ps) THEN "Fetch" ELSE "Finish"

Init ==
    /\ pc = "Idle"
    /\ top_n \in 1..MaxLimit
    /\ prods = <<>>
    /\ tickers = <<>>
    /\ products = <<>>
    /\ i = 0
    /\ df = <<>>
    /\ metrics = None
    /\ results = <<>>
    /\ requests = <<>>
    /\ progress = <<>>
    /\ status_text = ""
    /\ st_error = FALSE
    /\ st_warning = FALSE
    /\ table = None

\* lines 165-170: the button is pressed, get_top_liquid_pairs is entered
StartScan ==
    /\ pc = "Idle"
    /\ pc' = "GetProducts"
    /\ status_text' = "Fetching active market pairs..."
    /\ UNCHANGED <<top_n, prods, tickers, products, i, df, metrics, results,
                   requests, progress, st_error, st_warning, table>>

\* lines 49-51 and then 170-174: the except branch returns [], the handler
\* starts with no results and an empty loop
UniverseFailed ==
    /\ st_error' = TRUE
    /\ products' = <<>>
    /\ prods' = <<>>
    /\ tickers' = <<>>
    /\ results' = <<>>
    /\ i' = 0
    /\ pc' = LoopHead(0, <<>>)
    /\ UNCHANGED <<top_n, df, metrics, requests, progress, status_text,
                   st_warning, table>>

\* line 28: the catalog request, which may raise
GetProducts ==
    /\ pc = "GetProducts"
    /\ \/ UniverseFailed
       \/ /\ prods' \in Catalogs
          /\ pc' = "GetTickers"
          /\ UNCHANGED <<top_n, tickers, products, i, df, metrics, results,
                         requests, progress, status_text, st_error,
                         st_warning, table>>

\* lines 39-47: the ticker request, which may raise; then filter, sort, slice
GetTickers ==
    /\ pc = "GetTickers"
    /\ \/ UniverseFailed
       \/ /\ tickers' \in TickerLists
          /\ products' = TopLiquidPairs(prods, tickers', top_n)
          /\ pc' = "Return"
          /\ UNCHANGED <<top_n, prods, i, df, metrics, results, requests,
                         progress, status_text, st_error, st_warning, table>>

\* line 47 and then 170-174: the function returns (its locals are gone),
\* the handler starts the loop
ReturnProducts ==
    /\ pc = "Return"
    /\ prods' = <<>>
    /\ tickers' = <<>>
    /\ results' = <<>>
    /\ i' = 0
    /\ pc' = LoopHead(0, products)
    /\ UNCHANGED <<top_n, products, df, metrics, requests, progress,
                   status_text, st_error, st_warning, table>>

\* every frame get_historical_data can hand back
FetchedFrames == UNION { get_historical_data(resp) : resp \in CandleResponses }

\* lines 175-179: one candle request for products[i]
FetchData ==
    /\ pc = "Fetch"
    /\ status_text' = "Analyzing"
    /\ requests' = Append(requests, products[i + 1].symbol)
    /\ df' \in FetchedFrames
    /\ pc' = "Analyze"
    /\ UNCHANGED <<top_n, prods, tickers, products, i, metrics, results,
                   progress, st_error, st_warning, table>>

\* lines 182-194: calculate_metrics and the row; an exception of
\* calculate_metrics is caught nowhere and ends the script run
Analyze ==
    /\ pc = "Analyze"
    /\ LET r == calculate_metrics(df)
       IN  IF r.raised
           THEN /\ pc' = "Crashed"
                /\ UNCHANGED <<metrics, results>>
           ELSE /\ metrics' = r.value
                /\ results' = Collect(results, products[i + 1].symbol, r.value)
                /\ pc' = "Progress"
    /\ UNCHANGED <<top_n, prods, tickers, products, i, df, requests, progress,
                   status_text, st_error, st_warning, table>>

\* lines 197-198 and the next turn of the loop.  df and metrics are never
\* read again before the next turn overwrites them: the model forgets them.
UpdateProgress ==
    /\ pc = "Progress"
    /\ progress' = Append(progress, ProgressValue(i, Len(products)))
    /\ i' = i + 1
    /\ df' = <<>>
    /\ metrics' = None
    /\ pc' = LoopHead(i + 1, products)
    /\ UNCHANGED <<top_n, prods, tickers, products, results, requests,
                   status_text, st_error, st_warning, table>>

\* lines 200-225
Finish ==
    /\ pc = "Finish"
    /\ status_text' = "Scan Complete!"
    /\ IF results # <<>>
       THEN table' = Some(results) /\ UNCHANGED st_warning
       ELSE st_warning' = TRUE /\ UNCHANGED table
    /\ pc' = "Done"
    /\ UNCHANGED <<top_n, prods, tickers, products, i, df, metrics, results,
                   requests, progress, st_error>>

Next ==
    \/ StartScan
    \/ GetProducts
    \/ GetTickers
    \/ ReturnProducts
    \/ FetchData
    \/ Analyze
    \/ UpdateProgress
    \/ Finish

Spec == Init /\ [][Next]_vars

---------------------------------------------------------------------------
(* Properties *)

Symbols(ps) == [k \in 1..Len(ps) |-> ps[k].symbol]

\* the catalog positions of the instruments a scan may cover
EligibleAt(ps) ==
    { j \in 1..Len(ps) :
        /\ ps[j].contract_type = "perpetual_futures"
        /\ ps[j].state = "live"
        /\ ps[j].quoting_asset.symbol = "USDT" }

\* the 24h volume the ticker snapshot gives a symbol, 0 when it gives none
Volume24h(ts, sym) ==
    IF \E k \in 1..Len(ts) : ts[k].symbol = sym /\ "volume" \in DOMAIN ts[k]
    THEN (CHOOSE t \in { ts[k] : k \in 1..Len(ts) } :
              t.symbol = sym /\ "volume" \in DOMAIN t).volume
    ELSE 0

\* how many eligible instruments come before the one at catalog position j:
\* those of greater volume, and those of equal volume listed earlier
RankOf(ps, ts, j) ==
    Cardinality({ h \in EligibleAt(ps) :
                    \/ Volume24h(ts, ps[h].symbol) > Volume24h(ts, ps[j].symbol)
                    \/ /\ Volume24h(ts, ps[h].symbol) = Volume24h(ts, ps[j].symbol)
                       /\ h < j })

\* C1: when get_top_liquid_pairs returns, its result is exactly the first
\* min(N, number of eligible instruments) eligible instruments in the order
\* of descending 24h volume (no ticker volume counts as 0, equal volumes keep
\* catalog order); so it holds at most N instruments, all of them eligible.
C1_TopLiquidPairs ==
    pc = "Return" =>
        /\ Len(products) = Min(top_n, Cardinality(EligibleAt(prods)))
        /\ Len(products) <= top_n
        /\ \A k \in 1..Len(products) :
              \E j \in EligibleAt(prods) : products[k] = prods[j]
        /\ \A j \in EligibleAt(prods) :
              RankOf(prods, tickers, j) < top_n =>
                  products[RankOf(prods, tickers, j) + 1] = prods[j]

\* an ineligible instrument has the highest volume, two eligible ones tie,
\* and the limit cuts the list
C1_Witness ==
    /\ pc = "Return"
    /\ Cardinality(EligibleAt(prods)) > top_n
    /\ \E b \in 1..Len(prods) :
          /\ b \notin EligibleAt(prods)
          /\ \A j \in EligibleAt(prods) :
                Volume24h(tickers, prods[b].symbol) > Volume24h(tickers, prods[j].symbol)
    /\ \E j, h \in EligibleAt(prods) :
          /\ j < h
          /\ Volume24h(tickers, prods[j].symbol) = Volume24h(tickers, prods[h].symbol)
          /\ products[1] = prods[j]

StatusPriority(st) == IF st = "SQUEEZE" THEN 0 ELSE IF st = "VOL SPIKE" THEN 1 ELSE 2

\* C2: the rows handed to the table renderer at the end of a scan are in
\* Status priority order: no VOL SPIKE row precedes a SQUEEZE row.
C2_TableRanked ==
    (pc = "Done" /\ table # None) =>
        \A a, b \in 1..Len(table[1]) :
            a < b => StatusPriority(table[1][a].Status) <= StatusPriority(table[1][b].Status)

\* C3: a failure on one instrument (fetch error, malformed payload, short
\* history) only skips that instrument: the scan is never ended by it.
C3_FailureIsolated == pc # "Crashed"

\* C4: after a failed catalog or ticker request the universe is empty and the
\* cycle does not reach the "Scan Complete" / "no coins found" end state of a
\* scan that found no signal.
C4_AbortedDistinct ==
    st_error =>
        /\ products = <<>>
        /\ ~(pc = "Done" /\ status_text = "Scan Complete!" /\ st_warning)

\* C5: the percent change of a snapshot is
\* (close[n-1] - close[n-1-20]) / close[n-1-20] * 100 for a series of n
\* candles counted from 0: the reference is 20 candles before the last one.
C5_ChangeOver20Candles ==
    (pc = "Progress" /\ metrics # None) =>
        LET last == df[Len(df)].close
            ref  == df[Len(df) - 20].close
            got  == metrics[1].change_24h[1]
        IN  got[1] * ref = (last - ref) * 100 * got[2]

WellFormed(rows) ==
    \A k \in 1..Len(rows) :
        /\ DOMAIN rows[k] = {"time", "high", "low", "close", "volume"}
        /\ rows[k].close > 0

\* C6: calculate_metrics returns no snapshot for a series of fewer than 21
\* candles, and for a well-formed series of 21 or more a snapshot with all
\* five fields, none of them NaN; it never returns a partly filled snapshot.
C6_AllOrNothing ==
    pc \in {"Progress", "Crashed"} =>
        /\ Len(df) < 21 => pc = "Progress" /\ metrics = None
        /\ (Len(df) >= 21 /\ WellFormed(df)) => pc = "Progress" /\ metrics # None
        /\ metrics # None =>
              /\ DOMAIN metrics[1] =
                    {"price", "squeeze", "bb_width", "volume_spike", "change_24h"}
              /\ metrics[1].price = df[Len(df)].close
              /\ metrics[1].squeeze \in BOOLEAN
              /\ metrics[1].volume_spike \in BOOLEAN
              /\ metrics[1].bb_width # None
              /\ metrics[1].change_24h # None

\* a series of exactly 21 candles gave a snapshot
C6_Witness == pc = "Progress" /\ Len(df) = 21 /\ metrics # None

\* C7: a retained instrument is SQUEEZE exactly if its squeeze flag is set,
\* whatever the volume-spike flag, and VOL SPIKE exactly if squeeze is not
\* set and volume spike is.
C7_SqueezeFirst ==
    (pc = "Progress" /\ metrics # None
        /\ (metrics[1].squeeze \/ metrics[1].volume_spike)) =>
        /\ results # <<>>
        /\ LET row == results[Len(results)]
           IN  /\ row.Symbol = products[i + 1].symbol
               /\ row.Status = "SQUEEZE" <=> metrics[1].squeeze
               /\ row.Status = "VOL SPIKE" <=>
                      (~metrics[1].squeeze /\ metrics[1].volume_spike)

\* an instrument with both flags set was retained as SQUEEZE
C7_Witness ==
    /\ pc = "Progress"
    /\ metrics # None
    /\ metrics[1].squeeze /\ metrics[1].volume_spike
    /\ results # <<>>
    /\ results[Len(results)].Status = "SQUEEZE"

\* C8: the frame handed to calculate_metrics is strictly increasing by
\* timestamp: sorted ascending, no timestamp twice.
C8_StrictlyIncreasing ==
    pc = "Analyze" =>
        \A k \in 1..(Len(df) - 1) : df[k].time < df[k + 1].time

\* C9: the candle requests of a cycle are the universe, in universe order,
\* each instrument once: always a prefix of it, and all of it when the
\* cycle has ended.
C9_FetchedOncePerInstrument ==
    /\ Len(requests) <= Len(products)
    /\ requests = SubSeq(Symbols(products), 1, Len(requests))
    /\ pc \in {"Done", "Crashed"} => requests = Symbols(products)

\* C10: the k-th progress value of a scan over T instruments is k/T, with
\* or without a row for that instrument; the values rise strictly, lie in
\* (0, 1] and end at 1 when the scan is done; an empty universe reports none.
C10_Progress ==
    /\ Len(progress) = i
    /\ \A k \in 1..Len(progress) :
          /\ progress[k][2] # 0
          /\ progress[k][1] * Len(products) = k * progress[k][2]
          /\ 0 < progress[k][1] /\ progress[k][1] <= progress[k][2]
    /\ \A k \in 1..(Len(progress) - 1) :
          progress[k][1] * progress[k + 1][2] < progress[k + 1][1] * progress[k][2]
    /\ (pc = "Done" /\ products # <<>>) =>
          /\ progress # <<>>
          /\ progress[Len(progress)][1] = progress[Len(progress)][2]
    /\ products = <<>> => progress = <<>>

\* a finished scan of two instruments, one skipped and one retained
C10_Witness ==
    /\ pc = "Done"
    /\ Len(products) = 2
    /\ Len(results) = 1
    /\ progress = << <<1, 2>>, <<2, 2>> >>

====
